---- MODULE Spec2Model ----
(***************************************************************************)
(* Model of commands/internal/setpipelinehelpers/atc_config.go:            *)
(* ATCConfig.Set and the helpers it calls (newConfig, resolveTemplates,    *)
(* resolveDeprecatedTemplateStyle, ApplyConfigInteraction,                 *)
(* showPipelineConfigErrors, showWarnings, showHelpfulMessage, diff).      *)
(*                                                                         *)
(* A document is a sequence of tokens: plain text, a current-syntax        *)
(* placeholder ((k)), a legacy-syntax placeholder {{k}}, or a value an     *)
(* evaluator has substituted.  A variable file is a payload that is        *)
(* unreadable, undecodable, decodable only as current variables, or        *)
(* decodable in both namespaces.                                           *)
(***************************************************************************)
EXTENDS Naturals, Sequences, FiniteSets

VARIABLES configFile, paramFiles, templateVariables, SkipInteraction,
          pc, evaluatedConfig, paramPayloads, oldVars, vars, err, evals,
          trace, getErr, existingConfigVersion, errorMessages, putCalls,
          putResult, shown, ret, existingConfig, new, unmarshalled, rendered

allvars == <<configFile, paramFiles, templateVariables, SkipInteraction,
             pc, evaluatedConfig, paramPayloads, oldVars, vars, err, evals,
             trace, getErr, existingConfigVersion, errorMessages, putCalls,
             putResult, shown, ret, existingConfig, new, unmarshalled,
             rendered>>

inputs == <<configFile, paramFiles, templateVariables, SkipInteraction>>

resvars == <<evaluatedConfig, paramPayloads, oldVars, vars, err, evals>>

cfgvars == <<existingConfig, new, unmarshalled, rendered>>

setvars == <<getErr, existingConfigVersion, errorMessages, putCalls,
             putResult, ret, cfgvars>>

(***************************************************************************)
(* Bounds of the model.                                                    *)
(***************************************************************************)
MaxFiles == 2
MaxFlags == 2
MaxDocLen == 2
MaxMsgs == 1
MaxWarnings == 1
MaxEntities == 2

Keys == {"env", "region"}
Vals == {"x", "y"}
Msgs == {"m1", "m2"}
Warnings == {"w1"}
Versions == {"1", "2"}

None == "none"

SeqsUpTo(S, n) == UNION {[1..m -> S] : m \in 0..n}

(***************************************************************************)
(* Documents.                                                              *)
(***************************************************************************)
Text == [t |-> "text", k |-> "", v |-> ""]
Cur(k) == [t |-> "cur", k |-> k, v |-> ""]
Old(k) == [t |-> "old", k |-> k, v |-> ""]
CurVal(v) == [t |-> "curval", k |-> "", v |-> v]
OldVal(v) == [t |-> "oldval", k |-> "", v |-> v]

NoDoc == <<[t |-> "nodoc", k |-> "", v |-> ""]>>
NoFile == <<[t |-> "nofile", k |-> "", v |-> ""]>>

RawTokens == {Text} \cup {Cur(k) : k \in Keys} \cup {Old(k) : k \in Keys}

Docs(n) == SeqsUpTo(RawTokens, n)

Placeholders(doc) == {doc[i].k : i \in {j \in DOMAIN doc : doc[j].t = "cur"}}

(***************************************************************************)
(* Variable files and flags.                                               *)
(***************************************************************************)
Mappings == UNION {[D -> Vals] : D \in SUBSET Keys}

Payload(kind, m) == [kind |-> kind, m |-> m]
Unreadable == Payload("unreadable", <<>>)
Bad == Payload("bad", <<>>)

GoodPayloads == {Payload("both", m) : m \in Mappings}
AllPayloads == {Unreadable, Bad} \cup GoodPayloads
                 \cup {Payload("curonly", m) : m \in Mappings}

Flag(n, v, o) == [Name |-> n, Value |-> v, OldValue |-> o]
PairedFlags == {Flag(n, v, v) : n \in Keys, v \in Vals}
AllFlags == {Flag(n, v, o) : n \in Keys, v \in Vals, o \in Vals}

(***************************************************************************)
(* yaml.Unmarshal of a payload into template.StaticVariables (current) and *)
(* into temp.Variables (legacy).                                           *)
(***************************************************************************)
DecodesCurrent(p) == p.kind \in {"both", "curonly"}
DecodesLegacy(p) == p.kind = "both"

Entry(v, kind, i) == [v |-> v, src |-> <<kind, i>>]

StaticVars(p, i) == [k \in DOMAIN p.m |-> Entry(p.m[k], "file", i)]

(***************************************************************************)
(* The flag loops: a later flag of the same name overwrites an earlier one.*)
(***************************************************************************)
LastFlag(flags, k) ==
  CHOOSE j \in DOMAIN flags :
     /\ flags[j].Name = k
     /\ \A i \in DOMAIN flags : flags[i].Name = k => i <= j

FlagNames(flags) == {flags[j].Name : j \in DOMAIN flags}

flagVarsCurrent(flags) ==
  [k \in FlagNames(flags) |->
      Entry(flags[LastFlag(flags, k)].Value, "flag", LastFlag(flags, k))]

flagVarsLegacy(flags) ==
  [k \in FlagNames(flags) |->
      Entry(flags[LastFlag(flags, k)].OldValue, "flag", LastFlag(flags, k))]

(***************************************************************************)
(* Errors.                                                                 *)
(***************************************************************************)
NoErr == [kind |-> "nil", names |-> {}]
DecodeError == [kind |-> "DecodeError", names |-> {}]
ReadError == [kind |-> "ReadError", names |-> {}]
NoPut == [created |-> FALSE, updated |-> FALSE, warnings |-> <<>>, err |-> None]
MissingVariableError(names) == [kind |-> "MissingVariableError", names |-> names]

(***************************************************************************)
(* resolveTemplates: the variable list handed to template.NewMultiVars is  *)
(* the flag variables followed by the files from the last listed to the    *)
(* first listed.                                                           *)
(***************************************************************************)
fileOrderForward(n) == [j \in 1..n |-> j]

fileOrder(n) == [j \in 1..n |-> n + 1 - j]

varsListFlagsLast(payloads, flags) ==
  [j \in 1..Len(payloads) |->
      StaticVars(payloads[fileOrder(Len(payloads))[j]],
                 fileOrder(Len(payloads))[j])]
  \o <<flagVarsCurrent(flags)>>

varsList(payloads, flags) ==
  <<flagVarsCurrent(flags)>> \o
  [j \in 1..Len(payloads) |->
      StaticVars(payloads[fileOrder(Len(payloads))[j]],
                 fileOrder(Len(payloads))[j])]

(***************************************************************************)
(* template.MultiVars.Get: the first variable source of the list that has  *)
(* the key answers.                                                        *)
(***************************************************************************)
MultiVarsFound(varss, k) == \E i \in DOMAIN varss : k \in DOMAIN varss[i]

MultiVarsGet(varss, k) ==
  LET i == CHOOSE i \in DOMAIN varss :
              /\ k \in DOMAIN varss[i]
              /\ \A j \in DOMAIN varss : k \in DOMAIN varss[j] => i <= j
  IN varss[i][k]

(***************************************************************************)
(* template.Template.Evaluate: every ((k)) with a variable is replaced by  *)
(* its value; with ExpectAllKeys the evaluation fails naming every ((k))   *)
(* that has none, without it such a placeholder stays in the document.     *)
(***************************************************************************)
MissingKeys(doc, varss) == {k \in Placeholders(doc) : ~MultiVarsFound(varss, k)}

Substitute(doc, varss) ==
  [i \in DOMAIN doc |->
     IF doc[i].t = "cur" /\ MultiVarsFound(varss, doc[i].k)
     THEN CurVal(MultiVarsGet(varss, doc[i].k).v)
     ELSE doc[i]]

Evaluate(doc, varss, ExpectAllKeys) ==
  IF ExpectAllKeys /\ MissingKeys(doc, varss) # {}
  THEN [out |-> NoDoc, err |-> MissingVariableError(MissingKeys(doc, varss))]
  ELSE [out |-> Substitute(doc, varss), err |-> NoErr]

resolveTemplatesLenient(configPayload, payloads, flags) ==
  IF \E i \in DOMAIN payloads : ~DecodesCurrent(payloads[i])
  THEN [out |-> NoDoc, err |-> DecodeError, vars |-> <<>>]
  ELSE [out  |-> Evaluate(configPayload, varsList(payloads, flags), FALSE).out,
        err  |-> Evaluate(configPayload, varsList(payloads, flags), FALSE).err,
        vars |-> varsList(payloads, flags)]

resolveTemplatesAllVarsUsed(configPayload, payloads, flags) ==
  IF \E i \in DOMAIN payloads : ~DecodesCurrent(payloads[i])
  THEN [out |-> NoDoc, err |-> DecodeError, vars |-> <<>>]
  ELSE IF \E k \in Keys : /\ MultiVarsFound(varsList(payloads, flags), k)
                          /\ k \notin Placeholders(configPayload)
  THEN [out |-> NoDoc,
        err |-> [kind |-> "UnusedVariableError",
                 names |-> {k \in Keys :
                              /\ MultiVarsFound(varsList(payloads, flags), k)
                              /\ k \notin Placeholders(configPayload)}],
        vars |-> varsList(payloads, flags)]
  ELSE [out  |-> Evaluate(configPayload, varsList(payloads, flags), TRUE).out,
        err  |-> Evaluate(configPayload, varsList(payloads, flags), TRUE).err,
        vars |-> varsList(payloads, flags)]

resolveTemplates(configPayload, payloads, flags) ==
  IF \E i \in DOMAIN payloads : ~DecodesCurrent(payloads[i])
  THEN [out |-> NoDoc, err |-> DecodeError, vars |-> <<>>]
  ELSE [out  |-> Evaluate(configPayload, varsList(payloads, flags), TRUE).out,
        err  |-> Evaluate(configPayload, varsList(payloads, flags), TRUE).err,
        vars |-> varsList(payloads, flags)]

(***************************************************************************)
(* The legacy template package: Present sniffs the document for {{k}},     *)
(* Merge overwrites the receiver's keys by the argument's, Evaluate        *)
(* replaces every {{k}} that has a variable and leaves the others as they  *)
(* are.                                                                    *)
(***************************************************************************)
Present(doc) == \E i \in DOMAIN doc : doc[i].t = "old"

Merge(v, other) ==
  [k \in DOMAIN v \cup DOMAIN other |->
      IF k \in DOMAIN other THEN other[k] ELSE v[k]]

LegacyEvaluate(doc, variables) ==
  [i \in DOMAIN doc |->
     IF doc[i].t = "old" /\ doc[i].k \in DOMAIN variables
     THEN OldVal(variables[doc[i].k].v)
     ELSE doc[i]]

RECURSIVE mergePayloads(_, _, _)
mergePayloads(payloads, i, acc) ==
  IF i > Len(payloads) THEN acc
  ELSE mergePayloads(payloads, i + 1, Merge(acc, StaticVars(payloads[i], i)))

legacyVars(payloads, flags) ==
  Merge(mergePayloads(payloads, 1, <<>>), flagVarsLegacy(flags))

resolveDeprecatedTemplateStyle(configPayload, payloads, flags) ==
  IF \E i \in DOMAIN payloads : ~DecodesLegacy(payloads[i])
  THEN [out |-> NoDoc, err |-> DecodeError, vars |-> <<>>]
  ELSE [out  |-> LegacyEvaluate(configPayload, legacyVars(payloads, flags)),
        err  |-> NoErr,
        vars |-> legacyVars(payloads, flags)]

(***************************************************************************)
(* atc.Config: four collections of named entities.                         *)
(***************************************************************************)
NameOrder == <<"a", "b">>
Names == {NameOrder[i] : i \in DOMAIN NameOrder}
Bodies == {"git", "s3"}

Entity(n, b) == [name |-> n, body |-> b]
Entities == {Entity(n, b) : n \in Names, b \in Bodies}
Collections(n) == SeqsUpTo(Entities, n)

Config(g, r, t, j) ==
  [Groups |-> g, Resources |-> r, ResourceTypes |-> t, Jobs |-> j]

EmptyConfig == Config(<<>>, <<>>, <<>>, <<>>)

(***************************************************************************)
(* GroupIndex, ResourceIndex, ResourceTypeIndex, JobIndex: the name-keyed  *)
(* index of a collection; the last entity of a name stands for the name.   *)
(***************************************************************************)
LastNamed(collection, n) ==
  CHOOSE i \in DOMAIN collection :
     /\ collection[i].name = n
     /\ \A j \in DOMAIN collection : collection[j].name = n => j <= i

Index(collection) ==
  [n \in {collection[i].name : i \in DOMAIN collection} |->
      [body |-> collection[LastNamed(collection, n)].body,
       pos  |-> LastNamed(collection, n)]]

(***************************************************************************)
(* diffIndices: a Removed record for every name only in the existing       *)
(* index (by position), an Added record for every name only in the new     *)
(* index (by position), a Changed record for every name in both whose      *)
(* bodies differ (by name).                                                *)
(***************************************************************************)
NoDiff == [tag |-> "none", name |-> "", old |-> "", new |-> ""]
Removed(n, b) == [tag |-> "Removed", name |-> n, old |-> b, new |-> ""]
Added(n, b) == [tag |-> "Added", name |-> n, old |-> "", new |-> b]
Changed(n, b, c) == [tag |-> "Changed", name |-> n, old |-> b, new |-> c]

RECURSIVE ByPosition(_, _)
ByPosition(names, index) ==
  IF names = {} THEN <<>>
  ELSE LET n == CHOOSE m \in names :
                   \A o \in names : index[m].pos <= index[o].pos
       IN <<n>> \o ByPosition(names \ {n}, index)

IsChanged(n, existingIndex, newIndex) ==
  /\ n \in DOMAIN existingIndex
  /\ n \in DOMAIN newIndex
  /\ existingIndex[n].body # newIndex[n].body

diffIndices(existingIndex, newIndex) ==
  LET gone  == ByPosition(DOMAIN existingIndex \ DOMAIN newIndex, existingIndex)
      fresh == ByPosition(DOMAIN newIndex \ DOMAIN existingIndex, newIndex)
      both  == SelectSeq(NameOrder,
                         LAMBDA n : IsChanged(n, existingIndex, newIndex))
  IN [i \in DOMAIN gone |-> Removed(gone[i], existingIndex[gone[i]].body)]
     \o [i \in DOMAIN fresh |-> Added(fresh[i], newIndex[fresh[i]].body)]
     \o [i \in DOMAIN both |->
           Changed(both[i], existingIndex[both[i]].body, newIndex[both[i]].body)]

(***************************************************************************)
(* diff: for groups, resources, resource types and jobs in this order, the *)
(* header when there is a record, then one Render per record.              *)
(***************************************************************************)
Header(text) == [e |-> "header", text |-> text, diff |-> NoDiff]
Render(label, d) == [e |-> "render", text |-> label, diff |-> d]

Section(header, label, diffs) ==
  IF Len(diffs) > 0
  THEN <<Header(header)>> \o [i \in DOMAIN diffs |-> Render(label, diffs[i])]
  ELSE <<>>

diffEventsSwapped(existing, newConfig) ==
  Section("groups:", "group",
          diffIndices(Index(newConfig.Groups), Index(existing.Groups)))
  \o Section("resources:", "resource",
          diffIndices(Index(newConfig.Resources), Index(existing.Resources)))
  \o Section("resource types:", "resource type",
          diffIndices(Index(newConfig.ResourceTypes),
                      Index(existing.ResourceTypes)))
  \o Section("jobs:", "job",
          diffIndices(Index(newConfig.Jobs), Index(existing.Jobs)))

diffEventsAlwaysHeaders(existing, newConfig) ==
  LET section(header, label, diffs) ==
        <<Header(header)>> \o [i \in DOMAIN diffs |-> Render(label, diffs[i])]
  IN section("groups:", "group",
             diffIndices(Index(existing.Groups), Index(newConfig.Groups)))
     \o section("resources:", "resource",
             diffIndices(Index(existing.Resources), Index(newConfig.Resources)))
     \o section("resource types:", "resource type",
             diffIndices(Index(existing.ResourceTypes),
                         Index(newConfig.ResourceTypes)))
     \o section("jobs:", "job",
             diffIndices(Index(existing.Jobs), Index(newConfig.Jobs)))

diffEventsJobsFromResources(existing, newConfig) ==
  Section("groups:", "group",
          diffIndices(Index(existing.Groups), Index(newConfig.Groups)))
  \o Section("resources:", "resource",
          diffIndices(Index(existing.Resources), Index(newConfig.Resources)))
  \o Section("resource types:", "resource type",
          diffIndices(Index(existing.ResourceTypes),
                      Index(newConfig.ResourceTypes)))
  \o Section("jobs:", "job",
          diffIndices(Index(existing.Resources), Index(newConfig.Resources)))

diffEvents(existing, newConfig) ==
  Section("groups:", "group",
          diffIndices(Index(existing.Groups), Index(newConfig.Groups)))
  \o Section("resources:", "resource",
          diffIndices(Index(existing.Resources), Index(newConfig.Resources)))
  \o Section("resource types:", "resource type",
          diffIndices(Index(existing.ResourceTypes),
                      Index(newConfig.ResourceTypes)))
  \o Section("jobs:", "job",
          diffIndices(Index(existing.Jobs), Index(newConfig.Jobs)))

(* The configurations of the runs of Set. *)
EntityA == Entity("a", "git")
EntityB == Entity("b", "s3")

SetExisting == {EmptyConfig, Config(<<>>, <<EntityA>>, <<>>, <<EntityA>>)}

SetNew == {Config(<<>>, <<EntityA, EntityB>>, <<>>, <<EntityA>>),
           Config(<<EntityB>>, <<EntityA>>, <<>>, <<Entity("a", "s3")>>)}

(***************************************************************************)
(* newConfig, step by step.  displayhelpers.Failf and FailWithErrorf print *)
(* the message and end the process.                                        *)
(***************************************************************************)
Fail(message, e) ==
  /\ pc' = "exit"
  /\ err' = e
  /\ shown' = Append(shown, message)

Eval(name, in, r) == [name |-> name, in |-> in, err |-> r.err, out |-> r.out]

ReadFiles ==
  /\ pc = "start"
  /\ trace' = Append(trace, "resolve")
  /\ IF configFile = NoFile
     THEN /\ Fail("could not read config file", ReadError)
          /\ UNCHANGED <<evaluatedConfig, paramPayloads>>
     ELSE IF \E i \in DOMAIN paramFiles : paramFiles[i] = Unreadable
     THEN /\ Fail("could not read template variables file", ReadError)
          /\ evaluatedConfig' = configFile
          /\ UNCHANGED paramPayloads
     ELSE /\ pc' = "sniff"
          /\ evaluatedConfig' = configFile
          /\ paramPayloads' = paramFiles
          /\ UNCHANGED <<err, shown>>
  /\ UNCHANGED <<inputs, oldVars, vars, evals, setvars>>

ResolveDeprecatedAlways ==
  /\ pc = "sniff"
  /\ LET r == resolveDeprecatedTemplateStyle(evaluatedConfig, paramPayloads,
                                             templateVariables)
     IN /\ evals' = Append(evals, Eval("legacy", evaluatedConfig, r))
        /\ oldVars' = r.vars
        /\ IF r.err # NoErr
           THEN /\ Fail("could not resolve old-style template vars", r.err)
                /\ UNCHANGED evaluatedConfig
           ELSE /\ pc' = "templates"
                /\ evaluatedConfig' = r.out
                /\ UNCHANGED <<err, shown>>
  /\ UNCHANGED <<inputs, paramPayloads, vars, trace, setvars>>

ResolveDeprecatedDropsOutput ==
  /\ pc = "sniff"
  /\ Present(evaluatedConfig)
  /\ LET r == resolveDeprecatedTemplateStyle(evaluatedConfig, paramPayloads,
                                             templateVariables)
     IN /\ evals' = Append(evals, Eval("legacy", evaluatedConfig, r))
        /\ oldVars' = r.vars
        /\ IF r.err # NoErr
           THEN Fail("could not resolve old-style template vars", r.err)
           ELSE /\ pc' = "templates"
                /\ UNCHANGED <<err, shown>>
  /\ UNCHANGED <<inputs, evaluatedConfig, paramPayloads, vars, trace, setvars>>

ResolveDeprecated ==
  /\ pc = "sniff"
  /\ Present(evaluatedConfig)
  /\ LET r == resolveDeprecatedTemplateStyle(evaluatedConfig, paramPayloads,
                                             templateVariables)
     IN /\ evals' = Append(evals, Eval("legacy", evaluatedConfig, r))
        /\ oldVars' = r.vars
        /\ IF r.err # NoErr
           THEN /\ Fail("could not resolve old-style template vars", r.err)
                /\ UNCHANGED evaluatedConfig
           ELSE /\ pc' = "templates"
                /\ evaluatedConfig' = r.out
                /\ UNCHANGED <<err, shown>>
  /\ UNCHANGED <<inputs, paramPayloads, vars, trace, setvars>>

NoDeprecated ==
  /\ pc = "sniff"
  /\ ~Present(evaluatedConfig)
  /\ pc' = "templates"
  /\ UNCHANGED <<inputs, resvars, trace, shown, setvars>>

ResolveTemplatesIgnoringError ==
  /\ pc = "templates"
  /\ LET r == resolveTemplates(evaluatedConfig, paramPayloads,
                               templateVariables)
     IN /\ evals' = Append(evals, Eval("current", evaluatedConfig, r))
        /\ vars' = r.vars
        /\ pc' = "fetch"
        /\ err' = r.err
        /\ IF r.err # NoErr
           THEN /\ shown' = Append(shown, "could not resolve template vars")
                /\ UNCHANGED evaluatedConfig
           ELSE /\ evaluatedConfig' = r.out
                /\ UNCHANGED shown
  /\ UNCHANGED <<inputs, paramPayloads, oldVars, trace, setvars>>

ResolveTemplates ==
  /\ pc = "templates"
  /\ LET r == resolveTemplates(evaluatedConfig, paramPayloads,
                               templateVariables)
     IN /\ evals' = Append(evals, Eval("current", evaluatedConfig, r))
        /\ vars' = r.vars
        /\ IF r.err # NoErr
           THEN /\ Fail("could not resolve template vars", r.err)
                /\ UNCHANGED evaluatedConfig
           ELSE /\ pc' = "fetch"
                /\ evaluatedConfig' = r.out
                /\ UNCHANGED <<err, shown>>
  /\ UNCHANGED <<inputs, paramPayloads, oldVars, trace, setvars>>

newConfig == ReadFiles \/ ResolveDeprecated \/ NoDeprecated \/ ResolveTemplates

(***************************************************************************)
(* Initial states.                                                         *)
(***************************************************************************)
Fresh ==
  /\ pc = "start"
  /\ evaluatedConfig = NoDoc
  /\ paramPayloads = <<>>
  /\ oldVars = <<>>
  /\ vars = <<>>
  /\ err = NoErr
  /\ evals = <<>>
  /\ trace = <<>>
  /\ getErr = None
  /\ existingConfigVersion = None
  /\ errorMessages = <<>>
  /\ putCalls = <<>>
  /\ putResult = NoPut
  /\ shown = <<>>
  /\ ret = None
  /\ existingConfig = EmptyConfig
  /\ new = EmptyConfig
  /\ unmarshalled = NoDoc
  /\ rendered = <<>>

(* Variable stores: many files and flags, two documents. *)
VarsDocs == {<<Old("env"), Cur("region")>>, <<Cur("env"), Cur("region")>>}

InitVars ==
  /\ configFile \in VarsDocs
  /\ paramFiles \in SeqsUpTo(GoodPayloads \cup {Bad}, MaxFiles)
  /\ templateVariables \in SeqsUpTo(PairedFlags, MaxFlags)
  /\ SkipInteraction = TRUE
  /\ Fresh

SpecVars == InitVars /\ [][newConfig]_allvars

(* Resolution: many documents, few files and flags. *)
ResolveFiles ==
  {<<>>, <<Bad>>, <<Unreadable>>,
   <<Payload("both", [k \in {"env"} |-> "x"])>>,
   <<Payload("curonly", [k \in {"env"} |-> "x"])>>,
   <<Payload("both", [k \in Keys |-> "y"])>>}

ResolveFlags ==
  {<<>>, <<Flag("region", "x", "x")>>, <<Flag("region", "x", "y")>>,
   <<Flag("env", "y", "x")>>}

InitResolve ==
  /\ configFile \in Docs(MaxDocLen) \cup {NoFile}
  /\ paramFiles \in ResolveFiles
  /\ templateVariables \in ResolveFlags
  /\ SkipInteraction = TRUE
  /\ Fresh

SpecResolve == InitResolve /\ [][newConfig]_allvars

(***************************************************************************)
(* Set, step by step, after newConfig has returned.                        *)
(***************************************************************************)
PipelineConfigAllFatal ==
  /\ pc = "fetch"
  /\ trace' = Append(trace, "get")
  /\ \E version \in Versions, config \in SetExisting :
       /\ existingConfig' = config
       /\ \/ /\ getErr' = "nil"
             /\ existingConfigVersion' = version
             /\ UNCHANGED <<errorMessages, ret>>
             /\ pc' = "parse"
          \/ \E messages \in SeqsUpTo(Msgs, MaxMsgs) :
               /\ getErr' = "PipelineConfigError"
               /\ existingConfigVersion' = version
               /\ ret' = "get error"
               /\ UNCHANGED errorMessages
               /\ pc' = "done"
          \/ /\ getErr' = "error"
             /\ existingConfigVersion' = version
             /\ ret' = "get error"
             /\ UNCHANGED errorMessages
             /\ pc' = "done"
  /\ UNCHANGED <<inputs, resvars, putCalls, putResult, shown, new,
                 unmarshalled, rendered>>

PipelineConfigNoneFatal ==
  /\ pc = "fetch"
  /\ trace' = Append(trace, "get")
  /\ \E version \in Versions, config \in SetExisting :
       /\ existingConfig' = config
       /\ \/ /\ getErr' = "nil"
             /\ existingConfigVersion' = version
             /\ UNCHANGED <<errorMessages, ret>>
             /\ pc' = "parse"
          \/ \E messages \in SeqsUpTo(Msgs, MaxMsgs) :
               /\ getErr' = "PipelineConfigError"
               /\ existingConfigVersion' = version
               /\ errorMessages' = messages
               /\ UNCHANGED ret
               /\ pc' = "parse"
          \/ /\ getErr' = "error"
             /\ existingConfigVersion' = version
             /\ UNCHANGED <<errorMessages, ret>>
             /\ pc' = "parse"
  /\ UNCHANGED <<inputs, resvars, putCalls, putResult, shown, new,
                 unmarshalled, rendered>>

PipelineConfigAfterFailure ==
  /\ pc \in {"fetch", "exit"}
  /\ trace' = Append(trace, "get")
  /\ \E version \in Versions, config \in SetExisting :
       /\ existingConfig' = config
       /\ \/ /\ getErr' = "nil"
             /\ existingConfigVersion' = version
             /\ UNCHANGED <<errorMessages, ret>>
             /\ pc' = "parse"
          \/ \E messages \in SeqsUpTo(Msgs, MaxMsgs) :
               /\ getErr' = "PipelineConfigError"
               /\ existingConfigVersion' = version
               /\ errorMessages' = messages
               /\ UNCHANGED ret
               /\ pc' = "parse"
          \/ /\ getErr' = "error"
             /\ existingConfigVersion' = version
             /\ ret' = "get error"
             /\ UNCHANGED errorMessages
             /\ pc' = "done"
  /\ UNCHANGED <<inputs, resvars, putCalls, putResult, shown, new,
                 unmarshalled, rendered>>

PipelineConfig ==
  /\ pc = "fetch"
  /\ trace' = Append(trace, "get")
  /\ \E version \in Versions, config \in SetExisting :
       /\ existingConfig' = config
       /\ \/ /\ getErr' = "nil"
             /\ existingConfigVersion' = version
             /\ UNCHANGED <<errorMessages, ret>>
             /\ pc' = "parse"
          \/ \E messages \in SeqsUpTo(Msgs, MaxMsgs) :
               /\ getErr' = "PipelineConfigError"
               /\ existingConfigVersion' = version
               /\ errorMessages' = messages
               /\ UNCHANGED ret
               /\ pc' = "parse"
          \/ /\ getErr' = "error"
             /\ existingConfigVersion' = version
             /\ ret' = "get error"
             /\ UNCHANGED errorMessages
             /\ pc' = "done"
  /\ UNCHANGED <<inputs, resvars, putCalls, putResult, shown, new,
                 unmarshalled, rendered>>

Unmarshal ==
  /\ pc = "parse"
  /\ unmarshalled' = evaluatedConfig
  /\ \E ok \in BOOLEAN, config \in SetNew :
       IF ok
       THEN /\ pc' = "diff"
            /\ new' = config
            /\ UNCHANGED ret
       ELSE /\ pc' = "done"
            /\ ret' = "yaml error"
            /\ UNCHANGED new
  /\ UNCHANGED <<inputs, resvars, trace, getErr, existingConfigVersion,
                 errorMessages, putCalls, putResult, shown, existingConfig,
                 rendered>>

diffAfterErrors ==
  /\ pc = "diff"
  /\ IF Len(errorMessages) > 0
     THEN /\ trace' = trace \o <<"errors", "diff">>
          /\ shown' = (shown \o <<"Error loading existing config:">>)
                        \o errorMessages
     ELSE /\ trace' = Append(trace, "diff")
          /\ UNCHANGED shown
  /\ rendered' = diffEvents(existingConfig, new)
  /\ pc' = "confirm"
  /\ UNCHANGED <<inputs, resvars, getErr, existingConfigVersion,
                 errorMessages, putCalls, putResult, ret,
                 existingConfig, new, unmarshalled>>

diff ==
  /\ pc = "diff"
  /\ trace' = Append(trace, "diff")
  /\ rendered' = diffEvents(existingConfig, new)
  /\ pc' = "errors"
  /\ UNCHANGED <<inputs, resvars, getErr, existingConfigVersion,
                 errorMessages, putCalls, putResult, ret, shown,
                 existingConfig, new, unmarshalled>>

showPipelineConfigErrors ==
  /\ pc = "errors"
  /\ IF Len(errorMessages) > 0
     THEN /\ trace' = Append(trace, "errors")
          /\ shown' = (shown \o <<"Error loading existing config:">>)
                        \o errorMessages
     ELSE UNCHANGED <<trace, shown>>
  /\ pc' = "confirm"
  /\ UNCHANGED <<inputs, resvars, setvars>>

(* ApplyConfigInteraction and the branch of Set on its result.  The        *)
(* prompt ends with the operator's answer or with an error.                *)
Answered(answer) ==
  CASE answer = "yes" -> "answer=yes"
    [] answer = "no" -> "answer=no"
    [] answer = "error" -> "answer=error"

ConfirmedOnPromptError(answer) ==
  SkipInteraction \/ answer \in {"yes", "error"}

Confirmed(answer) == SkipInteraction \/ answer = "yes"

ApplyConfigInteractionIgnored ==
  /\ pc = "confirm"
  /\ \E answer \in {"yes", "no", "error"} :
       /\ IF SkipInteraction
          THEN trace' = Append(trace, "confirm=true")
          ELSE trace' = trace \o
                 <<"prompt", Answered(answer),
                   IF answer = "yes" THEN "confirm=true"
                                     ELSE "confirm=false">>
       /\ pc' = "put"
       /\ UNCHANGED <<shown, ret>>
  /\ UNCHANGED <<inputs, resvars, getErr, existingConfigVersion,
                 errorMessages, putCalls, putResult, cfgvars>>

ApplyConfigInteraction ==
  /\ pc = "confirm"
  /\ \E answer \in {"yes", "no", "error"} :
       /\ IF SkipInteraction
          THEN trace' = Append(trace, "confirm=true")
          ELSE trace' = trace \o
                 <<"prompt", Answered(answer),
                   IF answer = "yes" THEN "confirm=true"
                                     ELSE "confirm=false">>
       /\ IF Confirmed(answer)
          THEN /\ pc' = "put"
               /\ UNCHANGED <<shown, ret>>
          ELSE /\ pc' = "done"
               /\ shown' = Append(shown, "bailing out")
               /\ ret' = "nil"
  /\ UNCHANGED <<inputs, resvars, getErr, existingConfigVersion,
                 errorMessages, putCalls, putResult, cfgvars>>

CreateOrUpdatePipelineConfigIgnoringError ==
  /\ pc = "put"
  /\ trace' = Append(trace, "put")
  /\ putCalls' = Append(putCalls, [version |-> existingConfigVersion,
                                   config  |-> evaluatedConfig])
  /\ \E created \in BOOLEAN, updated \in BOOLEAN,
        warnings \in SeqsUpTo(Warnings, MaxWarnings),
        e \in {"nil", "error"} :
       /\ putResult' = [created |-> created, updated |-> updated,
                        warnings |-> warnings, err |-> e]
       /\ pc' = "warn"
       /\ UNCHANGED ret
  /\ UNCHANGED <<inputs, resvars, getErr, existingConfigVersion,
                 errorMessages, shown, cfgvars>>

CreateOrUpdatePipelineConfigRawDocument ==
  /\ pc = "put"
  /\ trace' = Append(trace, "put")
  /\ putCalls' = Append(putCalls, [version |-> existingConfigVersion,
                                   config  |-> configFile])
  /\ \E created \in BOOLEAN, updated \in BOOLEAN,
        warnings \in SeqsUpTo(Warnings, MaxWarnings),
        e \in {"nil", "error"} :
       /\ putResult' = [created |-> created, updated |-> updated,
                        warnings |-> warnings, err |-> e]
       /\ IF e # "nil"
          THEN /\ pc' = "done"
               /\ ret' = "put error"
          ELSE /\ pc' = "warn"
               /\ UNCHANGED ret
  /\ UNCHANGED <<inputs, resvars, getErr, existingConfigVersion,
                 errorMessages, shown, cfgvars>>

CreateOrUpdatePipelineConfig ==
  /\ pc = "put"
  /\ trace' = Append(trace, "put")
  /\ putCalls' = Append(putCalls, [version |-> existingConfigVersion,
                                   config  |-> evaluatedConfig])
  /\ \E created \in BOOLEAN, updated \in BOOLEAN,
        warnings \in SeqsUpTo(Warnings, MaxWarnings),
        e \in {"nil", "error"} :
       /\ putResult' = [created |-> created, updated |-> updated,
                        warnings |-> warnings, err |-> e]
       /\ IF e # "nil"
          THEN /\ pc' = "done"
               /\ ret' = "put error"
          ELSE /\ pc' = "warn"
               /\ UNCHANGED ret
  /\ UNCHANGED <<inputs, resvars, getErr, existingConfigVersion,
                 errorMessages, shown, cfgvars>>

showWarnings ==
  /\ pc = "warn"
  /\ IF Len(putResult.warnings) > 0
     THEN /\ trace' = Append(trace, "warnings")
          /\ shown' = shown \o putResult.warnings
     ELSE UNCHANGED <<trace, shown>>
  /\ pc' = "message"
  /\ UNCHANGED <<inputs, resvars, setvars>>

showHelpfulMessageCreatedFirst ==
  /\ pc = "message"
  /\ IF putResult.created
     THEN /\ trace' = Append(trace, "created")
          /\ shown' = Append(shown, "pipeline created!")
          /\ pc' = "done"
          /\ ret' = "nil"
     ELSE IF putResult.updated
     THEN /\ trace' = Append(trace, "updated")
          /\ shown' = Append(shown, "configuration updated")
          /\ pc' = "done"
          /\ ret' = "nil"
     ELSE /\ trace' = Append(trace, "panic")
          /\ pc' = "panic"
          /\ UNCHANGED <<shown, ret>>
  /\ UNCHANGED <<inputs, resvars, getErr, existingConfigVersion,
                 errorMessages, putCalls, putResult, cfgvars>>

showHelpfulMessage ==
  /\ pc = "message"
  /\ IF putResult.updated
     THEN /\ trace' = Append(trace, "updated")
          /\ shown' = Append(shown, "configuration updated")
          /\ pc' = "done"
          /\ ret' = "nil"
     ELSE IF putResult.created
     THEN /\ trace' = Append(trace, "created")
          /\ shown' = Append(shown, "pipeline created!")
          /\ pc' = "done"
          /\ ret' = "nil"
     ELSE /\ trace' = Append(trace, "panic")
          /\ pc' = "panic"
          /\ UNCHANGED <<shown, ret>>
  /\ UNCHANGED <<inputs, resvars, getErr, existingConfigVersion,
                 errorMessages, putCalls, putResult, cfgvars>>

Set ==
  \/ newConfig
  \/ PipelineConfig
  \/ Unmarshal
  \/ diff
  \/ showPipelineConfigErrors
  \/ ApplyConfigInteraction
  \/ CreateOrUpdatePipelineConfig
  \/ showWarnings
  \/ showHelpfulMessage

(* The whole of Set: a few documents, files and flags. *)
SetDocs == {<<Text>>, <<Cur("env")>>, <<Old("env"), Cur("region")>>, NoFile}

SetFiles == {<<>>, <<Bad>>, <<Payload("both", [k \in {"env"} |-> "x"])>>}

SetFlags == {<<>>, <<Flag("region", "x", "y")>>}

Init ==
  /\ configFile \in SetDocs
  /\ paramFiles \in SetFiles
  /\ templateVariables \in SetFlags
  /\ SkipInteraction \in BOOLEAN
  /\ Fresh

Spec == Init /\ [][Set]_allvars

(***************************************************************************)
(* Properties.                                                             *)
(***************************************************************************)
Occurs(e) == \E i \in DOMAIN trace : trace[i] = e

Precedes(a, b) ==
  \A j \in DOMAIN trace : trace[j] = b => \E i \in 1..(j - 1) : trace[i] = a

Min(S) == CHOOSE i \in S : \A j \in S : i <= j
Max(S) == CHOOSE i \in S : \A j \in S : j <= i

HasFlag(k) == \E j \in DOMAIN templateVariables : templateVariables[j].Name = k

FlagsNamed(k) ==
  {j \in DOMAIN templateVariables : templateVariables[j].Name = k}

FilesWith(k) == {i \in DOMAIN paramFiles : k \in DOMAIN paramFiles[i].m}

StoreBuilt == Len(vars) > 0

LegacyBuilt ==
  /\ Len(evals) >= 1
  /\ evals[1].name = "legacy"
  /\ evals[1].err = NoErr

(* C1, as stated: the lookup built by resolveTemplates resolves a key to   *)
(* the flag's value when a flag names it, and otherwise to the value of    *)
(* the earliest-listed file (lowest index) that contains it.               *)
C1_EarliestFileWins ==
  StoreBuilt =>
    \A k \in Keys :
      IF HasFlag(k)
      THEN /\ MultiVarsFound(vars, k)
           /\ MultiVarsGet(vars, k).v =
                templateVariables[Max(FlagsNamed(k))].Value
      ELSE IF FilesWith(k) # {}
      THEN /\ MultiVarsFound(vars, k)
           /\ MultiVarsGet(vars, k).v = paramFiles[Min(FilesWith(k))].m[k]
      ELSE ~MultiVarsFound(vars, k)

(* C1, amended: the lookup built by resolveTemplates resolves a key to the *)
(* flag's value when a flag names it, and otherwise to the value of the    *)
(* latest-listed file (highest index) that contains it; a key in no source *)
(* is not found.                                                           *)
C1_LatestFileWins ==
  StoreBuilt =>
    \A k \in Keys :
      IF HasFlag(k)
      THEN /\ MultiVarsFound(vars, k)
           /\ MultiVarsGet(vars, k).v =
                templateVariables[Max(FlagsNamed(k))].Value
      ELSE IF FilesWith(k) # {}
      THEN /\ MultiVarsFound(vars, k)
           /\ MultiVarsGet(vars, k).v = paramFiles[Max(FilesWith(k))].m[k]
      ELSE ~MultiVarsFound(vars, k)

(* The scenario of C1 with staging, us = "x" and prod, eu = "y": files     *)
(* [{env: x}], [{env: y, region: x}] and the flag region=y resolve to      *)
(* env = y (the second file's), region = y (the flag's).                   *)
C1_Witness ==
  /\ StoreBuilt
  /\ paramFiles = <<Payload("both", [k \in {"env"} |-> "x"]),
                    Payload("both", [k \in Keys |->
                                        IF k = "env" THEN "y" ELSE "x"])>>
  /\ templateVariables = <<Flag("region", "y", "y")>>
  /\ MultiVarsGet(vars, "env").v = "y"
  /\ MultiVarsGet(vars, "region").v = "y"

(* C10: the legacy store and the current store take every key from the     *)
(* same source: a key is in one exactly when it is in the other, and both  *)
(* have it from the same flag or the same file index.                      *)
C10_SamePrecedence ==
  (LegacyBuilt /\ StoreBuilt) =>
    \A k \in Keys :
      /\ (k \in DOMAIN oldVars) <=> MultiVarsFound(vars, k)
      /\ (k \in DOMAIN oldVars) => oldVars[k].src = MultiVarsGet(vars, k).src

(* Both stores were built from two files that share a key no flag names,   *)
(* and from a flag whose key a file has too.                               *)
C10_Witness ==
  /\ LegacyBuilt
  /\ StoreBuilt
  /\ \E k \in Keys : Cardinality(FilesWith(k)) >= 2 /\ ~HasFlag(k)
  /\ \E k \in Keys : FilesWith(k) # {} /\ HasFlag(k)

EvalsNamed(name) == {i \in DOMAIN evals : evals[i].name = name}

Resolving == pc \in {"start", "sniff", "templates"}

(* C5: the legacy evaluator runs only on a document with the legacy        *)
(* marker, and first; whenever it has produced its output the current      *)
(* evaluator runs on exactly that output; without the marker the current   *)
(* evaluator runs on the raw document and the legacy one never runs; the   *)
(* current evaluator runs exactly once in every successful resolution.     *)
C5_EvaluatorDispatch ==
  /\ \A i \in EvalsNamed("legacy") :
       i = 1 /\ Present(configFile) /\ evals[i].in = configFile
  /\ \A i \in EvalsNamed("current") :
       IF Present(configFile)
       THEN i = 2 /\ LegacyBuilt /\ evals[i].in = evals[1].out
       ELSE i = 1 /\ evals[i].in = configFile
  /\ (~Resolving /\ LegacyBuilt) => Cardinality(EvalsNamed("current")) = 1
  /\ (~Resolving /\ pc # "exit") => Cardinality(EvalsNamed("current")) = 1
  /\ (~Resolving /\ pc # "exit" /\ Present(configFile)) =>
       Cardinality(EvalsNamed("legacy")) = 1

(* A resolution succeeded in which the legacy evaluator substituted a      *)
(* value and the current evaluator then substituted another.               *)
C5_Witness ==
  /\ pc = "fetch"
  /\ Len(evals) = 2
  /\ evals[1].out # evals[1].in
  /\ evals[2].in = evals[1].out
  /\ evals[2].out # evals[2].in

InNoSource(k) == ~HasFlag(k) /\ FilesWith(k) = {}

(* C7: when the variable files decode, the current evaluator fails exactly *)
(* when some placeholder of its input is in no flag and no file, and the   *)
(* error names exactly those placeholders.                                 *)
C7_MissingNamesExact ==
  \A i \in EvalsNamed("current") :
    (\A f \in DOMAIN paramPayloads : DecodesCurrent(paramPayloads[f])) =>
      LET missing == {k \in Placeholders(evals[i].in) : InNoSource(k)}
      IN IF missing = {}
         THEN evals[i].err = NoErr
         ELSE /\ evals[i].err = MissingVariableError(missing)
              /\ pc = "exit"

(* The evaluation failed naming one placeholder of a document that has     *)
(* another placeholder whose variable is present.                          *)
C7_Witness ==
  /\ pc = "exit"
  /\ err.kind = "MissingVariableError"
  /\ err.names # {}
  /\ err.names # Placeholders(evals[Len(evals)].in)

Finished == pc \in {"done", "panic", "exit"}

OutcomeReported == Occurs("updated") \/ Occurs("created")

ConfirmCalled == Occurs("confirm=true") \/ Occurs("confirm=false")

(* C2: put is called at most once and only after Confirm has returned true *)
(* in the run; once Confirm has returned false, put is never called and    *)
(* Set has returned nil.                                                   *)
C2_PutOnceAfterConfirm ==
  /\ Len(putCalls) <= 1
  /\ Cardinality({i \in DOMAIN trace : trace[i] = "put"}) = Len(putCalls)
  /\ Precedes("confirm=true", "put")
  /\ Occurs("confirm=false") =>
       /\ putCalls = <<>>
       /\ ~Occurs("put")
       /\ pc = "done"
       /\ ret = "nil"

(* The operator was asked, answered yes, and the put was made. *)
C2_Witness ==
  /\ Occurs("prompt")
  /\ Occurs("confirm=true")
  /\ Len(putCalls) = 1

AllShown(messages) ==
  \A i \in DOMAIN messages : \E j \in DOMAIN shown : shown[j] = messages[i]

PutSucceeded == Len(putCalls) = 1 /\ putResult.err = "nil"

(* C4, as stated: after a put without error, created = updated (both true  *)
(* or both false) ends the run as a fatal fault with no outcome reported.  *)
C4_BothOrNeitherIsFatal ==
  (PutSucceeded /\ Finished /\ putResult.created = putResult.updated) =>
    /\ pc = "panic"
    /\ ~OutcomeReported

(* C4, amended: after a put without error, only created = updated = false  *)
(* is a fatal fault (a panic, no outcome reported); updated = true reports *)
(* 'configuration updated' whatever created is, so created = updated =     *)
(* true is reported as an update; created alone reports 'pipeline          *)
(* created!'.  Exactly one outcome is reported, or none and the panic.     *)
C4_OnlyNeitherIsFatal ==
  (PutSucceeded /\ Finished) =>
    /\ putResult.updated =>
         pc = "done" /\ ret = "nil" /\ Occurs("updated") /\ ~Occurs("created")
    /\ (~putResult.updated /\ putResult.created) =>
         pc = "done" /\ ret = "nil" /\ Occurs("created") /\ ~Occurs("updated")
    /\ (~putResult.updated /\ ~putResult.created) =>
         pc = "panic" /\ ret = None /\ ~OutcomeReported

(* The put returned created = updated = true and the run reported          *)
(* 'configuration updated'.                                                *)
C4_Witness ==
  /\ PutSucceeded
  /\ putResult.created
  /\ putResult.updated
  /\ pc = "done"
  /\ Occurs("updated")

DecodeFails ==
  \E i \in DOMAIN paramFiles :
     \/ paramFiles[i] = Bad
     \/ paramFiles[i].kind = "curonly" /\ Present(configFile)

StrictFails ==
  \E i \in EvalsNamed("current") : evals[i].err.kind = "MissingVariableError"

(* C6: when a variable file does not decode or the strict evaluator finds  *)
(* a placeholder without a variable, newConfig returns no document: the    *)
(* run never leaves the resolution, so no get, no diff, no Confirm and no  *)
(* put happen, and once the failure is met the process has ended.          *)
C6_FailedResolutionAborts ==
  (DecodeFails \/ StrictFails) =>
    /\ Resolving \/ pc = "exit"
    /\ ~Occurs("get")
    /\ ~Occurs("diff")
    /\ ~ConfirmCalled
    /\ putCalls = <<>>
    /\ (\E i \in DOMAIN evals : evals[i].err # NoErr) => pc = "exit"
    /\ pc = "exit" => ret = None

(* The strict evaluator found a placeholder without a variable and the     *)
(* process ended.                                                          *)
C6_Witness ==
  /\ StrictFails
  /\ pc = "exit"
  /\ err.kind = "MissingVariableError"

(* C8: when get fails with an error that is not a PipelineConfigError, Set *)
(* has returned that error at once: no diff, no Confirm, no put.           *)
C8_OtherGetErrorIsFatal ==
  getErr = "error" =>
    /\ pc = "done"
    /\ ret = "get error"
    /\ trace[Len(trace)] = "get"
    /\ ~Occurs("diff")
    /\ ~ConfirmCalled
    /\ putCalls = <<>>

(* get failed with a plain error after a successful resolution. *)
C8_Witness ==
  /\ getErr = "error"
  /\ Len(evals) >= 1
  /\ evals[Len(evals)].err = NoErr

(* C9: when put returns an error, Set has returned that error and has      *)
(* shown neither the warnings nor an outcome; an outcome is reported only  *)
(* in a run whose put returned without error.                              *)
C9_PutErrorIsFatal ==
  /\ putResult.err = "error" =>
       /\ pc = "done"
       /\ ret = "put error"
       /\ ~Occurs("warnings")
       /\ ~OutcomeReported
       /\ \A j \in DOMAIN shown :
            shown[j] \notin Warnings \cup
                            {"configuration updated", "pipeline created!"}
  /\ OutcomeReported => PutSucceeded

(* The put failed while carrying a warning and claiming an update. *)
C9_Witness ==
  /\ putResult.err = "error"
  /\ Len(putResult.warnings) > 0
  /\ putResult.updated

(* What the current namespace sees of the files and of the flags. *)
CurrentView(files) ==
  [i \in DOMAIN files |->
     IF files[i].kind = "curonly" THEN Payload("both", files[i].m)
                                  ELSE files[i]]

CurrentValues(flags) ==
  [i \in DOMAIN flags |-> Flag(flags[i].Name, flags[i].Value, flags[i].Value)]

FilesRead ==
  /\ configFile # NoFile
  /\ \A i \in DOMAIN paramFiles : paramFiles[i] # Unreadable

(* C11: for a document without the legacy marker the result of newConfig   *)
(* (the resolved document or the error) is the result of the current       *)
(* evaluator on the document, the files' current contents and the flags'   *)
(* current values alone: the flags' OldValue and whether a file decodes as *)
(* legacy variables do not enter it.                                       *)
C11_LegacySourcesIgnored ==
  (~Present(configFile) /\ ~Resolving) =>
    LET r == resolveTemplates(configFile, CurrentView(paramFiles),
                              CurrentValues(templateVariables))
    IN IF ~FilesRead
       THEN pc = "exit" /\ err = ReadError
       ELSE IF r.err # NoErr
       THEN pc = "exit" /\ err = r.err
       ELSE pc # "exit" /\ err = NoErr /\ evaluatedConfig = r.out

(* A document of current placeholders only was resolved although a file    *)
(* does not decode as legacy variables and a flag's OldValue differs from  *)
(* its Value.                                                              *)
C11_Witness ==
  /\ pc = "fetch"
  /\ ~Present(configFile)
  /\ Placeholders(configFile) # {}
  /\ \E i \in DOMAIN paramFiles : paramFiles[i].kind = "curonly"
  /\ \E j \in DOMAIN templateVariables :
        templateVariables[j].OldValue # templateVariables[j].Value

NoPlaceholders(doc) == \A i \in DOMAIN doc : doc[i].t = "text"

Kinds == {"Groups", "Resources", "ResourceTypes", "Jobs"}

SmallPairs ==
  {<<<<EntityA>>, <<EntityA>>>>,
   <<<<EntityA>>, <<Entity("a", "s3"), EntityB>>>>}

DiffPairs(big) ==
  {[k \in Kinds |-> IF k = big THEN p ELSE q] :
      p \in Collections(MaxEntities) \X Collections(MaxEntities),
      q \in SmallPairs}

InitDiff ==
  /\ configFile = <<Text>>
  /\ paramFiles = <<>>
  /\ templateVariables = <<>>
  /\ SkipInteraction = TRUE
  /\ pc = "diff"
  /\ evaluatedConfig = <<Text>>
  /\ paramPayloads = <<>>
  /\ oldVars = <<>>
  /\ vars = varsList(<<>>, <<>>)
  /\ err = NoErr
  /\ evals = <<Eval("current", <<Text>>, resolveTemplates(<<Text>>, <<>>, <<>>))>>
  /\ trace = <<"resolve", "get">>
  /\ getErr = "nil"
  /\ existingConfigVersion = "1"
  /\ errorMessages = <<>>
  /\ putCalls = <<>>
  /\ putResult = NoPut
  /\ shown = <<>>
  /\ ret = None
  /\ unmarshalled = <<Text>>
  /\ rendered = <<>>
  /\ \E big \in Kinds : \E pr \in DiffPairs(big) :
       /\ existingConfig = [k \in Kinds |-> pr[k][1]]
       /\ new = [k \in Kinds |-> pr[k][2]]

SpecDiff == InitDiff /\ [][diff]_allvars

DiffDone == Occurs("diff")

Label(kind) ==
  CASE kind = "Groups" -> "group"
    [] kind = "Resources" -> "resource"
    [] kind = "ResourceTypes" -> "resource type"
    [] kind = "Jobs" -> "job"

HeaderOf(kind) ==
  CASE kind = "Groups" -> "groups:"
    [] kind = "Resources" -> "resources:"
    [] kind = "ResourceTypes" -> "resource types:"
    [] kind = "Jobs" -> "jobs:"

Rank(kind) ==
  CASE kind = "Groups" -> 1
    [] kind = "Resources" -> 2
    [] kind = "ResourceTypes" -> 3
    [] kind = "Jobs" -> 4

KindOf(event) ==
  CHOOSE kind \in Kinds : event.text \in {Label(kind), HeaderOf(kind)}

(* The records rendered for a kind, in the order rendered. *)
RecordsOf(kind) ==
  LET renders == SelectSeq(rendered,
                   LAMBDA ev : ev.e = "render" /\ ev.text = Label(kind))
  IN [i \in DOMAIN renders |-> renders[i].diff]

Count(kind, d) ==
  Cardinality({i \in DOMAIN RecordsOf(kind) : RecordsOf(kind)[i] = d})

NamesIn(collection) == {collection[i].name : i \in DOMAIN collection}

BodyIn(collection, n) ==
  collection[Max({i \in DOMAIN collection : collection[i].name = n})].body

(* C12: for each kind the records rendered are exactly: one Removed for    *)
(* each name only in the existing index, one Added for each name only in   *)
(* the new index, one Changed(name, oldBody, newBody) for each name in     *)
(* both with different bodies, and nothing for a name in both with equal   *)
(* bodies.                                                                 *)
C12_DiffRecordsExact ==
  DiffDone =>
    \A kind \in Kinds :
      LET old == existingConfig[kind]
          nw  == new[kind]
          expected ==
            {Removed(n, BodyIn(old, n)) : n \in NamesIn(old) \ NamesIn(nw)}
            \cup {Added(n, BodyIn(nw, n)) : n \in NamesIn(nw) \ NamesIn(old)}
            \cup {Changed(n, BodyIn(old, n), BodyIn(nw, n)) :
                    n \in {m \in NamesIn(old) \cap NamesIn(nw) :
                             BodyIn(old, m) # BodyIn(nw, m)}}
      IN /\ \A d \in expected : Count(kind, d) = 1
         /\ \A i \in DOMAIN RecordsOf(kind) : RecordsOf(kind)[i] \in expected

(* Existing resources [a:git] against new resources [a:git, b:s3]: the     *)
(* resource records are the single Added(b).                               *)
C12_Witness ==
  /\ DiffDone
  /\ existingConfig.Resources = <<EntityA>>
  /\ new.Resources = <<EntityA, EntityB>>
  /\ RecordsOf("Resources") = <<Added("b", "s3")>>

EventsOf(kind) ==
  {i \in DOMAIN rendered : rendered[i].text \in {Label(kind), HeaderOf(kind)}}

(* C13: a kind whose existing and new collections are identical gets no    *)
(* header and no record; when the two configurations are identical the     *)
(* diff step emits nothing at all.                                         *)
C13_SelfDiffIsEmpty ==
  DiffDone =>
    /\ \A kind \in Kinds :
         existingConfig[kind] = new[kind] => EventsOf(kind) = {}
    /\ existingConfig = new => rendered = <<>>

(* Two identical configurations, no collection of them empty, were diffed. *)
C13_Witness ==
  /\ DiffDone
  /\ existingConfig = new
  /\ \A kind \in Kinds : Len(new[kind]) > 0

(* C18: the events come kind by kind in the order groups, resources,       *)
(* resource types, jobs; a kind has its header exactly when it has a       *)
(* record, the header first, then one render per record; and the records   *)
(* of a kind are the diff of that kind's two collections alone.            *)
C18_KindsIndependentInOrder ==
  DiffDone =>
    /\ \A i \in DOMAIN rendered : \A j \in DOMAIN rendered :
         i < j => Rank(KindOf(rendered[i])) <= Rank(KindOf(rendered[j]))
    /\ \A kind \in Kinds :
         LET headers == {i \in EventsOf(kind) : rendered[i].e = "header"}
             renders == {i \in EventsOf(kind) : rendered[i].e = "render"}
             records == diffIndices(Index(existingConfig[kind]),
                                    Index(new[kind]))
         IN /\ Cardinality(headers) = IF renders # {} THEN 1 ELSE 0
            /\ \A h \in headers :
                 /\ rendered[h].text = HeaderOf(kind)
                 /\ \A r \in renders : h < r
            /\ \A r \in renders : rendered[r].text = Label(kind)
            /\ Cardinality(renders) = Len(records)
            /\ RecordsOf(kind) = records

(* Three kinds have records, resources more than one, and one kind has     *)
(* none.                                                                   *)
C18_Witness ==
  /\ DiffDone
  /\ Len(RecordsOf("Groups")) > 0
  /\ Len(RecordsOf("Resources")) > 1
  /\ Len(RecordsOf("ResourceTypes")) = 0
  /\ Len(RecordsOf("Jobs")) > 0

(* The documents the resolver produced, in the order of its evaluations. *)
ResolverOutput == evals[Len(evals)].out

(* C15: every put carries the version token the get of the run returned    *)
(* and the resolved document of the run: the output of the resolver's last *)
(* evaluation, which is the document that was parsed into the new          *)
(* configuration and diffed; the run resolved once.                        *)
C15_PutArguments ==
  \A i \in DOMAIN putCalls :
    /\ putCalls[i].version = existingConfigVersion
    /\ Occurs("get")
    /\ putCalls[i].config = unmarshalled
    /\ Occurs("diff")
    /\ Len(evals) >= 1
    /\ putCalls[i].config = ResolverOutput
    /\ Cardinality({j \in DOMAIN trace : trace[j] = "resolve"}) = 1

(* A put was made with the second version token and with a document that  *)
(* resolution had changed.                                                 *)
C15_Witness ==
  /\ Len(putCalls) = 1
  /\ putCalls[1].version = "2"
  /\ putCalls[1].config # configFile
  /\ Placeholders(configFile) # {}

(* The place of a user-visible event in the order of Set; 0 for an event  *)
(* that is not one of the six.                                             *)
EventRank(e) ==
  CASE e = "diff" -> 1
    [] e = "errors" -> 2
    [] e \in {"confirm=true", "confirm=false"} -> 3
    [] e = "put" -> 4
    [] e = "warnings" -> 5
    [] e \in {"updated", "created"} -> 6
    [] OTHER -> 0

UserEvents == {i \in DOMAIN trace : EventRank(trace[i]) > 0}

(* C16: the user-visible events of a run occur in the order diff, errors,  *)
(* Confirm, put, warnings, outcome, each at most once; an event of the     *)
(* list has been preceded by the diff, a put by Confirm, and warnings and  *)
(* the outcome by the put.                                                 *)
C16_EventOrder ==
  /\ \A i, j \in UserEvents :
       i < j => EventRank(trace[i]) < EventRank(trace[j])
  /\ \A i \in UserEvents : EventRank(trace[i]) > 1 => Occurs("diff")
  /\ Occurs("put") => ConfirmCalled
  /\ (Occurs("warnings") \/ OutcomeReported) => Occurs("put")

(* One run showed all six events. *)
C16_Witness ==
  /\ Occurs("diff")
  /\ Occurs("errors")
  /\ ConfirmCalled
  /\ Occurs("put")
  /\ Occurs("warnings")
  /\ OutcomeReported

(* C17, as stated: the existing configuration is fetched before the new   *)
(* document is resolved, so a run whose resolution failed has contacted    *)
(* the store.                                                              *)
C17_GetBeforeResolve ==
  /\ Precedes("get", "resolve")
  /\ pc = "exit" => Occurs("get")

(* C17, amended: the new document is resolved before the existing          *)
(* configuration is fetched: the get is made only after resolution has     *)
(* returned a document without error, and a run whose resolution failed    *)
(* has ended without contacting the store.                                 *)
C17_ResolveBeforeGet ==
  /\ Precedes("resolve", "get")
  /\ Occurs("get") =>
       /\ ~Resolving
       /\ err = NoErr
       /\ Len(evals) >= 1
       /\ evaluatedConfig = evals[Len(evals)].out
  /\ (pc = "exit" \/ err # NoErr) => ~Occurs("get")

(* Resolution failed and the process ended; the store was never asked. *)
C17_Witness ==
  /\ pc = "exit"
  /\ err # NoErr
  /\ Occurs("resolve")
  /\ ~Occurs("get")

Answers == {"answer=yes", "answer=no", "answer=error"}

(* C19: with SkipInteraction set, ApplyConfigInteraction returns true and  *)
(* never prompts; otherwise it prompts once and returns true exactly when  *)
(* the operator answered yes, so false when the prompt failed; after a     *)
(* failed prompt Set has said it bails out, made no put and returned nil.  *)
C19_ConfirmResult ==
  /\ (SkipInteraction /\ ConfirmCalled) =>
       /\ Occurs("confirm=true")
       /\ ~Occurs("confirm=false")
       /\ ~Occurs("prompt")
       /\ \A i \in DOMAIN trace : trace[i] \notin Answers
  /\ (~SkipInteraction /\ ConfirmCalled) =>
       /\ Cardinality({i \in DOMAIN trace : trace[i] = "prompt"}) = 1
       /\ Cardinality({i \in DOMAIN trace : trace[i] \in Answers}) = 1
       /\ Precedes("prompt", "confirm=true")
       /\ Precedes("prompt", "confirm=false")
       /\ Occurs("confirm=true") <=> Occurs("answer=yes")
       /\ Occurs("confirm=false") <=>
            (Occurs("answer=no") \/ Occurs("answer=error"))
  /\ Occurs("answer=error") =>
       /\ Occurs("confirm=false")
       /\ putCalls = <<>>
       /\ ~Occurs("put")
       /\ pc = "done"
       /\ ret = "nil"
       /\ shown[Len(shown)] = "bailing out"

(* The prompt failed and Set returned nil without a put. *)
C19_Witness ==
  /\ ~SkipInteraction
  /\ Occurs("answer=error")
  /\ pc = "done"
  /\ ret = "nil"
  /\ putCalls = <<>>

====
